---- MODULE Spec2Model ----
(***************************************************************************)
(* State-machine model of src/solver.py (class NQueensCSP): the N-Queens   *)
(* CSP solver with AC-3 preprocessing and MRV/LCV backtracking search.     *)
(* One call of resolve_nqueens is unfolded into steps: input_reader, the   *)
(* AC-3 worklist loop (one pop per step), the recursive attempt_solution   *)
(* (explicit frame stack) and the final report.                            *)
(***************************************************************************)
EXTENDS Integers, Sequences, FiniteSets, TLC

VARIABLES
    pc,                  \* position inside resolve_nqueens
    qcolumns,            \* initial queen positions returned by input_reader
    domains,             \* self.domains : variable -> list of row values
    constraints,         \* self.constraints : list of ordered pairs
    constraints_queue,   \* the deque of apply_arcconsistency_algorithm
    ac3_result,          \* return value of apply_arcconsistency_algorithm
    current_assignment,  \* the dict shared by all attempt_solution frames
    stack,               \* the attempt_solution frames that are in their loop
    ret,                 \* value returned by the frame that returned last
    solution_assignment, \* local of resolve_nqueens (may be unbound)
    outcome,             \* how resolve_nqueens ended
    domains0,            \* history: the domain store when AC-3 started
    trace,               \* history: assignments the search went through
    prev,                \* history: summary of the previous completed call
    cc_var,              \* arguments and result of a direct call of
    cc_val,              \*   check_consistency
    cc_result

vars == <<pc, qcolumns, domains, constraints, constraints_queue, ac3_result,
          current_assignment, stack, ret, solution_assignment, outcome,
          domains0, trace, prev, cc_var, cc_val, cc_result>>

----------------------------------------------------------------------------
(* Bounds of the model *)

\* largest board size given to resolve_nqueens
MaxN == 8
\* the initial queen positions are [(s * i) % n : i in range(n)], s in 0..MaxSeed
MaxSeed == 1
\* largest board size of the AC-3 runs started from an arbitrary domain store
MaxAcN == 3
\* an arbitrary domain store misses at most MaxRemoved values of the full one
MaxRemoved == 3
\* largest board size of the direct calls of check_consistency
MaxCcN == 3

----------------------------------------------------------------------------
(* Python values *)

Abs(x) == IF x < 0 THEN -x ELSE x

\* the dict {}
EmptyDict == [v \in {} |-> 0]

\* d[k] = v
DictSet(d, k, v) == [x \in (DOMAIN d) \cup {k} |-> IF x = k THEN v ELSE d[x]]

\* del d[k]
DictDel(d, k) == [x \in (DOMAIN d) \ {k} |-> d[x]]

\* None, a dict, or a local that was never assigned
NoneValue == [kind |-> "None", val |-> EmptyDict]

DictValue(d) == [kind |-> "dict", val |-> d]

Unbound == [kind |-> "unbound", val |-> EmptyDict]

\* list(range(n))
Range(n) == [k \in 1..n |-> k - 1]

\* list.remove(v): drops the first occurrence of v
RECURSIVE ListRemove(_, _)
ListRemove(l, v) ==
    IF l = <<>> THEN <<>>
    ELSE IF Head(l) = v THEN Tail(l)
    ELSE <<Head(l)>> \o ListRemove(Tail(l), v)

ListSet(l) == {l[k] : k \in 1..Len(l)}

\* number of variables, len(self.domains)
N == Cardinality(DOMAIN domains)

----------------------------------------------------------------------------
(* input_reader *)

\* the board sizes a call may be given
BoardSizes == 0..MaxN

\* the initial queen positions supplied for a board of size n
QColumns(n) == {[k \in 1..n |-> (s * (k - 1)) % n] : s \in 0..MaxSeed}

\* self.domains = {i: list(range(n)) for i in range(n)}
FullDomains(n) == [i \in 0..(n - 1) |-> Range(n)]

\* self.constraints = [(i, j) for i in range(n) for j in range(n) if i != j]
AllConstraints(n) ==
    [k \in 1..(n * (n - 1)) |->
        LET i  == (k - 1) \div (n - 1)
            jj == (k - 1) % (n - 1)
        IN  <<i, IF jj < i THEN jj ELSE jj + 1>>]

----------------------------------------------------------------------------
(* check_consistency *)

\* the test without the row comparison
ConflictsDiagonalOnly(assigned_var, assigned_val, current_var, current_val) ==
    Abs(assigned_val - current_val) = Abs(assigned_var - current_var)

\* the test without the diagonal comparison
ConflictsRowOnly(assigned_var, assigned_val, current_var, current_val) ==
    assigned_val = current_val

\* the test with the column distance taken without abs()
ConflictsSignedDiagonal(assigned_var, assigned_val, current_var, current_val) ==
    \/ assigned_val = current_val
    \/ Abs(assigned_val - current_val) = assigned_var - current_var

\* the test of one item of the assignment
Conflicts(assigned_var, assigned_val, current_var, current_val) ==
    \/ assigned_val = current_val
    \/ Abs(assigned_val - current_val) = Abs(assigned_var - current_var)

\* False as soon as one item conflicts, True after the loop
check_consistency(current_var, current_val, assignment) ==
    ~ \E assigned_var \in DOMAIN assignment :
          Conflicts(assigned_var, assignment[assigned_var], current_var, current_val)

----------------------------------------------------------------------------
(* select_unassigned *)

unassigned_variables(d, assignment) == (DOMAIN d) \ (DOMAIN assignment)

\* the key (len(self.domains[variable]), variable)
MrvKeyLessLowIndex(d, a, b) ==
    \/ Len(d[a]) < Len(d[b])
    \/ Len(d[a]) = Len(d[b]) /\ a < b

\* the key (len(self.domains[variable]), -variable), compared as a tuple
MrvKeyLess(d, a, b) ==
    \/ Len(d[a]) < Len(d[b])
    \/ Len(d[a]) = Len(d[b]) /\ (-a) < (-b)

select_unassigned(d, assignment) ==
    CHOOSE v \in unassigned_variables(d, assignment) :
        \A u \in unassigned_variables(d, assignment) \ {v} : MrvKeyLess(d, v, u)

----------------------------------------------------------------------------
(* prioritize_domain_values *)

\* the loop over range(len(self.domains)) runs as the recursion Count
calculate_lcv(d, selected_variable, assignment, value) ==
    LET extended == DictSet(assignment, selected_variable, value)
        open(adjacent_variable) ==
            {k \in 1..Len(d[adjacent_variable]) :
                check_consistency(adjacent_variable, d[adjacent_variable][k], extended)}
        counted(adjacent_variable) ==
            adjacent_variable # selected_variable /\ adjacent_variable \notin DOMAIN assignment
        RECURSIVE Count(_)
        Count(adjacent_variable) ==
            IF adjacent_variable >= Cardinality(DOMAIN d) THEN 0
            ELSE (IF counted(adjacent_variable)
                  THEN Cardinality(open(adjacent_variable)) ELSE 0)
                 + Count(adjacent_variable + 1)
    IN  Count(0)

\* the insertion that puts position k before the elements of equal key
RECURSIVE InsertDescTiesFirst(_, _, _, _)
InsertDescTiesFirst(acc, l, k, key) ==
    IF acc = <<>> THEN <<k>>
    ELSE IF key[Head(acc)] > key[k]
         THEN <<Head(acc)>> \o InsertDescTiesFirst(Tail(acc), l, k, key)
         ELSE <<k>> \o acc

\* insert position k of l into the sorted list acc: after every element
\* whose key is at least as large (descending, stable)
RECURSIVE InsertDesc(_, _, _, _)
InsertDesc(acc, l, k, key) ==
    IF acc = <<>> THEN <<k>>
    ELSE IF key[Head(acc)] >= key[k] THEN <<Head(acc)>> \o InsertDesc(Tail(acc), l, k, key)
    ELSE <<k>> \o acc

RECURSIVE SortPositions(_, _, _, _)
SortPositions(acc, l, k, key) ==
    IF k > Len(l) THEN acc
    ELSE CHOOSE sorted \in {SortPositions(inserted, l, k + 1, key) :
                                inserted \in {InsertDesc(acc, l, k, key)}} : TRUE

\* sorted(l, key=..., reverse=True); key is given per position of l.
\* (Intermediate results are bound through singleton sets so that each is
\* evaluated once.)
SortedReverse(l, key) ==
    CHOOSE sorted \in {[k \in 1..Len(l) |-> l[order[k]]] :
                          order \in {SortPositions(<<>>, l, 1, key)}} : TRUE

\* the ordering that also drops the values leaving no option to the others
prioritize_open_values(d, selected_variable, assignment) ==
    LET l    == d[selected_variable]
        key  == [k \in 1..Len(l) |-> calculate_lcv(d, selected_variable, assignment, l[k])]
        kept == SelectSeq(SortPositions(<<>>, l, 1, key), LAMBDA k : key[k] > 0)
    IN  [k \in 1..Len(kept) |-> l[kept[k]]]

prioritize_domain_values(d, selected_variable, assignment) ==
    LET l == d[selected_variable]
    IN  CHOOSE sorted \in
            {SortedReverse(l, key) :
                key \in {[k \in 1..Len(l) |->
                             calculate_lcv(d, selected_variable, assignment, l[k])]}} : TRUE

----------------------------------------------------------------------------
(* revise_domains *)

\* the test written as: any(value_x != value_y for value_y in dy)
SomeValueDiffers(value_x, dy) ==
    \E k \in 1..Len(dy) : value_x # dy[k]

\* all(not any(value_x == value_y for value_y in dy) for value_y in dy)
NoCompatibleValue(value_x, dy) ==
    \A k1 \in 1..Len(dy) : ~ \E k2 \in 1..Len(dy) : value_x = dy[k2]

\* the loop over the copy of x's domain; d is the live store
RECURSIVE ReviseLoop(_, _, _, _, _, _)
ReviseLoop(d, updated, variable_x, variable_y, copy, k) ==
    IF k > Len(copy) THEN [domains |-> d, domain_updated |-> updated]
    ELSE IF NoCompatibleValue(copy[k], d[variable_y])
         THEN ReviseLoop([d EXCEPT ![variable_x] = ListRemove(d[variable_x], copy[k])],
                         TRUE, variable_x, variable_y, copy, k + 1)
         ELSE ReviseLoop(d, updated, variable_x, variable_y, copy, k + 1)

\* the revision that reports a change even when it removed nothing
revise_always_updated(d, variable_x, variable_y) ==
    [domains |-> ReviseLoop(d, FALSE, variable_x, variable_y, d[variable_x], 1).domains,
     domain_updated |-> TRUE]

revise_domains(d, variable_x, variable_y) ==
    ReviseLoop(d, FALSE, variable_x, variable_y, d[variable_x], 1)

\* the pairs appended when the filter excludes current_var instead
RequeuedButCurrent(cs, current_var, next_var) ==
    LET kept == SelectSeq(cs, LAMBDA c : c[1] # current_var)
    IN  [k \in 1..Len(kept) |-> <<kept[k][1], current_var>>]

\* the pairs appended after a revision of current_var against next_var
Requeued(cs, current_var, next_var) ==
    LET kept == SelectSeq(cs, LAMBDA c : c[1] # next_var)
    IN  [k \in 1..Len(kept) |-> <<kept[k][1], current_var>>]

----------------------------------------------------------------------------
(* resolve_nqueens, step by step *)

PyBool(b) == IF b THEN "True" ELSE "False"

\* the summary of a completed call
Summary == [valid |-> TRUE, n |-> N, q |-> qcolumns, outcome |-> outcome,
            result |-> solution_assignment, trace |-> trace]

NoSummary == [valid |-> FALSE, n |-> 0, q |-> <<>>, outcome |-> "running",
              result |-> Unbound, trace |-> <<>>]

\* the search seeded with the initial queen positions
InitialFromBoard(q) == [c \in 0..(Len(q) - 1) |-> q[c + 1]]

\* the argument of the top-level attempt_solution call
InitialAssignment(q) == EmptyDict

\* if len(current_assignment) == len(self.domains)
IsComplete(assignment, d) == Cardinality(DOMAIN assignment) = Cardinality(DOMAIN d)

\* failure on every revision that changed the domain
DomainEmptiedAlways(d, current_var) == TRUE

\* if not self.domains[current_var]
DomainEmptied(d, current_var) == d[current_var] = <<>>

\* the entry is left in place
RetractNothing(assignment, next_variable) == assignment

\* del current_assignment[next_variable]
Retract(assignment, next_variable) == DictDel(assignment, next_variable)

\* the test written as: if solution_assignment
SolutionTruthy(value) == value.kind = "dict" /\ value.val # EmptyDict

\* the else branch of: if solution_assignment is None
SolutionFound(value) == value.kind # "None"

\* the recursive call is taken to have failed whatever it returned
ChildSucceededNever(value) == FALSE

\* if potential_solution is not None
ChildSucceeded(value) == value.kind # "None"

\* the for loop stays on the same candidate
SameCandidate(idx) == idx

\* the for loop moves on to the next element of viable_values
NextCandidate(idx) == idx + 1

\* the ordering done in place: self.domains[selected_variable].sort(...)
DomainsSortedInPlace(d, selected_variable, viable_values) ==
    [d EXCEPT ![selected_variable] = viable_values]

\* self.domains after sorted(...): sorted builds a new list
DomainsAfterOrdering(d, selected_variable, viable_values) == d

\* a call: input_reader, then the worklist of AC-3 is seeded
ResolveNQueens ==
    /\ pc \in {"idle", "done"}
    /\ outcome # "error"
    /\ \E n \in BoardSizes : \E q \in QColumns(n) :
          /\ qcolumns' = q
          /\ domains' = FullDomains(n)
          /\ constraints' = AllConstraints(n)
    /\ constraints_queue' = constraints'
    /\ domains0' = domains'
    /\ pc' = "ac3"
    /\ ac3_result' = "none"
    /\ current_assignment' = EmptyDict
    /\ stack' = <<>>
    /\ ret' = Unbound
    /\ solution_assignment' = Unbound
    /\ outcome' = "running"
    /\ trace' = <<>>
    /\ prev' = IF pc = "done" THEN Summary ELSE prev
    /\ UNCHANGED <<cc_var, cc_val, cc_result>>

\* one iteration of the while loop of apply_arcconsistency_algorithm
AC3Step ==
    /\ pc = "ac3"
    /\ constraints_queue # <<>>
    /\ LET current_var == Head(constraints_queue)[1]
           next_var    == Head(constraints_queue)[2]
           revised     == revise_domains(domains, current_var, next_var)
           rest        == Tail(constraints_queue)
       IN  /\ domains' = revised.domains
           /\ IF revised.domain_updated /\ DomainEmptied(revised.domains, current_var)
              THEN /\ ac3_result' = "False"
                   /\ pc' = "finish"
                   /\ constraints_queue' = rest
              ELSE /\ constraints_queue' =
                          IF revised.domain_updated
                          THEN rest \o Requeued(constraints, current_var, next_var)
                          ELSE rest
                   /\ UNCHANGED <<pc, ac3_result>>
    /\ UNCHANGED <<qcolumns, constraints, current_assignment, stack, ret,
                   solution_assignment, outcome, domains0, trace, prev,
                   cc_var, cc_val, cc_result>>

\* the worklist is empty: AC-3 returns True and the search is called
AC3Return ==
    /\ pc = "ac3"
    /\ constraints_queue = <<>>
    /\ ac3_result' = "True"
    /\ current_assignment' = InitialAssignment(qcolumns)
    /\ trace' = <<current_assignment'>>
    /\ pc' = "call"
    /\ UNCHANGED <<qcolumns, domains, constraints, constraints_queue, stack, ret,
                   solution_assignment, outcome, domains0, prev,
                   cc_var, cc_val, cc_result>>

\* entry of attempt_solution: the completeness test, else a new frame
AttemptSolution ==
    /\ pc = "call"
    /\ IF IsComplete(current_assignment, domains)
       THEN /\ ret' = DictValue(current_assignment)
            /\ pc' = "return"
            /\ UNCHANGED <<stack, domains>>
       ELSE LET next_variable == select_unassigned(domains, current_assignment)
                viable_values ==
                    prioritize_domain_values(domains, next_variable, current_assignment)
            IN  /\ stack' = Append(stack, [next_variable |-> next_variable,
                                           viable_values |-> viable_values,
                                           idx |-> 1,
                                           entry |-> current_assignment])
                /\ domains' = DomainsAfterOrdering(domains, next_variable, viable_values)
                /\ pc' = "loop"
                /\ UNCHANGED ret
    /\ UNCHANGED <<qcolumns, constraints, constraints_queue, ac3_result,
                   current_assignment, solution_assignment, outcome, domains0,
                   trace, prev, cc_var, cc_val, cc_result>>

\* the for loop of the innermost frame: next candidate, or return None
ForStep ==
    /\ pc = "loop"
    /\ LET frame == stack[Len(stack)]
       IN  IF frame.idx > Len(frame.viable_values)
           THEN /\ ret' = NoneValue
                /\ stack' = SubSeq(stack, 1, Len(stack) - 1)
                /\ pc' = "return"
                /\ UNCHANGED <<current_assignment, trace>>
           ELSE LET possible_value == frame.viable_values[frame.idx]
                IN  IF check_consistency(frame.next_variable, possible_value,
                                         current_assignment)
                    THEN /\ current_assignment' =
                               DictSet(current_assignment, frame.next_variable,
                                       possible_value)
                         /\ trace' = Append(trace, current_assignment')
                         /\ pc' = "call"
                         /\ UNCHANGED <<stack, ret>>
                    ELSE /\ stack' = [stack EXCEPT ![Len(stack)].idx = NextCandidate(@)]
                         /\ UNCHANGED <<pc, current_assignment, trace, ret>>
    /\ UNCHANGED <<qcolumns, domains, constraints, constraints_queue, ac3_result,
                   solution_assignment, outcome, domains0, prev,
                   cc_var, cc_val, cc_result>>

\* the recursive call returned into the innermost frame
AfterReturn ==
    /\ pc = "return"
    /\ stack # <<>>
    /\ LET frame == stack[Len(stack)]
       IN  IF ChildSucceeded(ret)
           THEN /\ stack' = SubSeq(stack, 1, Len(stack) - 1)
                /\ UNCHANGED <<pc, ret, current_assignment, trace>>
           ELSE /\ current_assignment' = Retract(current_assignment, frame.next_variable)
                /\ trace' = Append(trace, current_assignment')
                /\ stack' = [stack EXCEPT ![Len(stack)].idx = NextCandidate(@)]
                /\ pc' = "loop"
                /\ UNCHANGED ret
    /\ UNCHANGED <<qcolumns, domains, constraints, constraints_queue, ac3_result,
                   solution_assignment, outcome, domains0, prev,
                   cc_var, cc_val, cc_result>>

\* the end of resolve_nqueens: the report, then the test before visualize_board
Report ==
    /\ \/ pc = "return" /\ stack = <<>>
       \/ pc = "finish"
    /\ pc' = "done"
    /\ IF ac3_result = "True"
       THEN /\ solution_assignment' = ret
            /\ outcome' =
                  IF ~ SolutionFound(ret) THEN "failure"
                  ELSE IF \A column \in 0..(Len(qcolumns) - 1) : column \in DOMAIN ret.val
                       THEN "success"
                       ELSE "error"
       ELSE /\ outcome' = "error"
            /\ UNCHANGED solution_assignment
    /\ UNCHANGED <<qcolumns, domains, constraints, constraints_queue, ac3_result,
                   current_assignment, stack, ret, domains0, trace, prev,
                   cc_var, cc_val, cc_result>>

\* a direct call of check_consistency
CheckConsistencyCall ==
    /\ pc = "cc"
    /\ cc_result' = PyBool(check_consistency(cc_var, cc_val, current_assignment))
    /\ pc' = "cc_done"
    /\ UNCHANGED <<qcolumns, domains, constraints, constraints_queue, ac3_result,
                   current_assignment, stack, ret, solution_assignment, outcome,
                   domains0, trace, prev, cc_var, cc_val>>

----------------------------------------------------------------------------
(* Specifications *)

\* the state after NQueensCSP()
Init ==
    /\ pc = "idle"
    /\ qcolumns = <<>>
    /\ domains = EmptyDict
    /\ constraints = <<>>
    /\ constraints_queue = <<>>
    /\ ac3_result = "none"
    /\ current_assignment = EmptyDict
    /\ stack = <<>>
    /\ ret = Unbound
    /\ solution_assignment = Unbound
    /\ outcome = "running"
    /\ domains0 = EmptyDict
    /\ trace = <<>>
    /\ prev = NoSummary
    /\ cc_var = 0
    /\ cc_val = 0
    /\ cc_result = "none"

Search == AttemptSolution \/ ForStep \/ AfterReturn

Next == ResolveNQueens \/ AC3Step \/ AC3Return \/ Search \/ Report

Spec == Init /\ [][Next]_vars

----------------------------------------------------------------------------
(* one call of resolve_nqueens, taken after input_reader *)

InitSolve ==
    /\ pc = "ac3"
    /\ \E n \in BoardSizes : \E q \in QColumns(n) :
          /\ qcolumns = q
          /\ domains = FullDomains(n)
          /\ constraints = AllConstraints(n)
    /\ domains0 = domains
    /\ constraints_queue = constraints
    /\ ac3_result = "none"
    /\ current_assignment = EmptyDict
    /\ stack = <<>>
    /\ ret = Unbound
    /\ solution_assignment = Unbound
    /\ outcome = "running"
    /\ trace = <<>>
    /\ prev = NoSummary
    /\ cc_var = 0
    /\ cc_val = 0
    /\ cc_result = "none"

NextSolve == AC3Step \/ AC3Return \/ AttemptSolution \/ ForStep \/ AfterReturn \/ Report

\* the interpreter always executes the next statement
FairSpecSolve == InitSolve /\ [][NextSolve]_vars /\ WF_vars(NextSolve)

----------------------------------------------------------------------------
(* AC-3 started from an arbitrary domain store *)

RECURSIVE SortedList(_)
SortedList(S) ==
    IF S = {} THEN <<>>
    ELSE LET m == CHOOSE x \in S : \A y \in S : x <= y
         IN  <<m>> \o SortedList(S \ {m})

RECURSIVE Missing(_, _, _)
Missing(f, n, i) ==
    IF i = n THEN 0 ELSE (n - Cardinality(f[i])) + Missing(f, n, i + 1)

\* the stores over n variables that miss at most MaxRemoved values
DomainStores(n) ==
    {[i \in 0..(n - 1) |-> SortedList(f[i])] :
        f \in {g \in [0..(n - 1) -> SUBSET (0..(n - 1))] : Missing(g, n, 0) <= MaxRemoved}}

InitAC3 ==
    /\ pc = "ac3"
    /\ \E n \in 0..MaxAcN : \E d \in DomainStores(n) :
          /\ domains = d
          /\ constraints = AllConstraints(n)
          /\ qcolumns = [k \in 1..n |-> 0]
    /\ domains0 = domains
    /\ constraints_queue = constraints
    /\ ac3_result = "none"
    /\ current_assignment = EmptyDict
    /\ stack = <<>>
    /\ ret = Unbound
    /\ solution_assignment = Unbound
    /\ outcome = "running"
    /\ trace = <<>>
    /\ prev = NoSummary
    /\ cc_var = 0
    /\ cc_val = 0
    /\ cc_result = "none"

NextAC3 == AC3Step \/ AC3Return \/ Search \/ Report

SpecAC3 == InitAC3 /\ [][NextAC3]_vars

\* the interpreter always executes the next statement
FairSpecAC3 == SpecAC3 /\ WF_vars(NextAC3)

----------------------------------------------------------------------------
(* the search started over an arbitrary domain store *)

InitSearch ==
    /\ pc = "call"
    /\ \E n \in 0..MaxAcN : \E d \in DomainStores(n) :
          /\ domains = d
          /\ constraints = AllConstraints(n)
          /\ qcolumns = [k \in 1..n |-> 0]
    /\ domains0 = domains
    /\ constraints_queue = <<>>
    /\ ac3_result = "True"
    /\ current_assignment = InitialAssignment(qcolumns)
    /\ trace = <<current_assignment>>
    /\ stack = <<>>
    /\ ret = Unbound
    /\ solution_assignment = Unbound
    /\ outcome = "running"
    /\ prev = NoSummary
    /\ cc_var = 0
    /\ cc_val = 0
    /\ cc_result = "none"

NextSearch == AttemptSolution \/ ForStep \/ AfterReturn \/ Report

SpecSearch == InitSearch /\ [][NextSearch]_vars

----------------------------------------------------------------------------
(* check_consistency called on arbitrary arguments *)

\* every dict from columns to rows of a board of size n
Assignments(n) == UNION {[S -> 0..(n - 1)] : S \in SUBSET (0..(n - 1))}

InitCC ==
    /\ pc = "cc"
    /\ \E n \in 1..MaxCcN :
          /\ domains = FullDomains(n)
          /\ constraints = AllConstraints(n)
          /\ current_assignment \in Assignments(n)
          /\ cc_var \in 0..(n - 1)
          /\ cc_val \in 0..(n - 1)
    /\ qcolumns = <<>>
    /\ domains0 = domains
    /\ constraints_queue = <<>>
    /\ ac3_result = "none"
    /\ stack = <<>>
    /\ ret = Unbound
    /\ solution_assignment = Unbound
    /\ outcome = "running"
    /\ trace = <<>>
    /\ prev = NoSummary
    /\ cc_result = "none"

NextCC == CheckConsistencyCall

SpecCC == InitCC /\ [][NextCC]_vars

----------------------------------------------------------------------------
(* Properties *)

\* no two queens of the placement share a row or a diagonal
ValidPlacement(a) ==
    \A vi \in DOMAIN a : \A vj \in DOMAIN a :
        vi # vj => /\ a[vi] # a[vj]
                   /\ Abs(a[vi] - a[vj]) # Abs(vi - vj)

\* the call ended with a complete valid assignment
CompleteValidResult ==
    /\ outcome = "success"
    /\ solution_assignment.kind = "dict"
    /\ DOMAIN solution_assignment.val = 0..(N - 1)
    /\ \A c \in 0..(N - 1) : solution_assignment.val[c] \in 0..(N - 1)
    /\ ValidPlacement(solution_assignment.val)

\* the call ended reporting no solution
FailureResult ==
    /\ outcome = "failure"
    /\ solution_assignment = NoneValue

\* queens can be placed on columns col..n-1 given those on columns 0..col-1
RECURSIVE CanPlace(_, _, _)
CanPlace(a, col, n) ==
    IF col = n THEN TRUE
    ELSE \E r \in 0..(n - 1) :
            /\ \A c \in 0..(col - 1) : a[c] # r /\ Abs(a[c] - r) # col - c
            /\ CanPlace(DictSet(a, col, r), col + 1, n)

SolutionExists(n) == CanPlace(EmptyDict, 0, n)

\* C1: for board sizes 1, 4, 5 and 8 the call ends in success with one row
\* per column 0..n-1, no two queens sharing a row or a diagonal.
C1_SolvedSizes ==
    (pc = "done" /\ N \in {1, 4, 5, 8}) => CompleteValidResult

C1_Witness == pc = "done" /\ N = 8 /\ outcome = "success"

\* C2: for board sizes 2 and 3 the call ends in failure, the search having
\* returned None.
C2_UnsolvableSizes ==
    (pc = "done" /\ N \in {2, 3}) => FailureResult

C2_Witness == pc = "done" /\ N = 3 /\ outcome = "failure" /\ Len(trace) > 1

\* C3: for every board size the call ends either in failure, and then no
\* valid placement exists, or in success with a complete valid assignment;
\* when a valid placement exists it ends in success.
C3_SoundAndComplete ==
    pc = "done" =>
        /\ FailureResult \/ CompleteValidResult
        /\ FailureResult => ~ SolutionExists(N)
        /\ SolutionExists(N) => CompleteValidResult

C3_Witness == pc = "done" /\ N = 6 /\ outcome = "success"

\* C4: for board size 0 AC-3 succeeds, the search returns the empty
\* assignment without assigning anything, and the call ends in success.
C4_EmptyBoard ==
    (pc = "done" /\ N = 0) =>
        /\ ac3_result = "True"
        /\ trace = <<EmptyDict>>
        /\ solution_assignment = DictValue(EmptyDict)
        /\ outcome = "success"

C4_Witness == pc = "done" /\ N = 0 /\ solution_assignment.kind = "dict"

C6_FunctionOfN ==
    /\ trace # <<>> => trace[1] = EmptyDict
    /\ (pc = "done" /\ prev.valid /\ prev.n = N) =>
          /\ prev.outcome = outcome
          /\ prev.result = solution_assignment
          /\ prev.trace = trace

C6_Witness ==
    /\ pc = "done" /\ prev.valid /\ prev.n = N /\ N = 8
    /\ prev.q # qcolumns
    /\ outcome = "success"

\* C7: during and after an AC-3 run every domain holds only values it held
\* when the run started, and when the run returns False some domain is empty.
C7_AC3Monotone ==
    /\ DOMAIN domains = DOMAIN domains0
    /\ \A v \in DOMAIN domains : ListSet(domains[v]) \subseteq ListSet(domains0[v])
    /\ ac3_result = "False" => \E v \in DOMAIN domains : domains[v] = <<>>

\* a failed run in which no domain was empty at the start and a first
\* revision shrank a domain (pairs were appended) before another emptied it
C7_Witness ==
    /\ ac3_result = "False"
    /\ \A v \in DOMAIN domains0 : domains0[v] # <<>>
    /\ Len(constraints_queue) > Len(constraints)

\* what is_consistent is to return: no entry in the same row or diagonal
NoEntryConflicts(variable, value, a) ==
    \A av \in DOMAIN a : a[av] # value /\ Abs(a[av] - value) # Abs(av - variable)

\* C8: check_consistency returns True exactly when no entry of the
\* assignment is in the same row or on the same diagonal (so always against
\* the empty assignment), and it leaves the assignment unchanged.
C8_ConsistencyChecker ==
    [][pc = "cc" =>
          /\ cc_result' = PyBool(NoEntryConflicts(cc_var, cc_val, current_assignment))
          /\ current_assignment = EmptyDict => cc_result' = "True"
          /\ (\E av \in DOMAIN current_assignment :
                 \/ current_assignment[av] = cc_val
                 \/ current_assignment[av] - cc_val = av - cc_var
                 \/ current_assignment[av] - cc_val = cc_var - av) => cc_result' = "False"
          /\ current_assignment' = current_assignment]_vars

C8_Witness ==
    /\ pc = "cc_done" /\ cc_result = "False"
    /\ Cardinality(DOMAIN current_assignment) >= 2
    /\ \A av \in DOMAIN current_assignment : current_assignment[av] # cc_val

\* the values of x's domain that some value of y's domain differs from
KeepsDiffering(dx, dy) ==
    SelectSeq(dx, LAMBDA v : \E k \in 1..Len(dy) : dy[k] # v)

\* C9: a revision of x against y removes from x's domain exactly the values
\* that no value of y's domain differs from, and changes no other domain.
C9_ReviseRemovesUnsupported ==
    [][(pc = "ac3" /\ constraints_queue # <<>>) =>
          LET x == Head(constraints_queue)[1]
              y == Head(constraints_queue)[2]
          IN  /\ domains'[x] = KeepsDiffering(domains[x], domains[y])
              /\ \A z \in DOMAIN domains : z # x => domains'[z] = domains[z]]_vars

\* C10: a frame that returns None leaves the assignment as it was when the
\* frame was entered, and a failed call leaves the assignment empty.
C10_FailureRestores ==
    /\ [][(pc = "loop" /\ pc' = "return") =>
             /\ ret' = NoneValue
             /\ current_assignment' = stack[Len(stack)].entry]_vars
    /\ [](outcome = "failure" => current_assignment = EmptyDict)

C10_Witness ==
    /\ pc = "return" /\ ret = NoneValue
    /\ Len(stack) >= 2
    /\ stack[Len(stack)].entry # EmptyDict
    /\ stack[Len(stack)].idx > 1

\* the top-level attempt_solution call is being made or has not returned yet
InSearch == pc \in {"call", "loop"} \/ (pc = "return" /\ stack # <<>>)

\* the number of frames that hold a tentative entry and wait for (or have
\* just got back) the result of their recursive call
Depth == IF pc = "loop" THEN Len(stack) - 1 ELSE Len(stack)

\* the shape of the shared assignment during the search
AssignmentWellFormed ==
    /\ Cardinality(DOMAIN current_assignment) <= N
    /\ DOMAIN current_assignment \subseteq 0..(N - 1)
    /\ \A v \in DOMAIN current_assignment : current_assignment[v] \in 0..(N - 1)
    /\ ValidPlacement(current_assignment)

\* C11 as stated: during the search the assignment has at most N entries on
\* distinct columns, no two sharing a row or diagonal, and the number of
\* entries always equals the recursion depth.
C11_EntriesEqualDepth ==
    InSearch =>
        /\ AssignmentWellFormed
        /\ Cardinality(DOMAIN current_assignment) = Depth

\* C11 amended: as above, but the number of entries equals the recursion
\* depth only until a complete assignment has been returned; from then on it
\* stays N while the frames unwind.
C11_EntriesEqualDepthUntilSuccess ==
    InSearch =>
        /\ AssignmentWellFormed
        /\ ret.kind # "dict" => Cardinality(DOMAIN current_assignment) = Depth
        /\ ret.kind = "dict" =>
              /\ Cardinality(DOMAIN current_assignment) = N
              /\ Depth <= N

C11_Witness ==
    /\ pc = "return" /\ ret.kind = "dict"
    /\ N = 8
    /\ Len(stack) = 3
    /\ Cardinality(DOMAIN current_assignment) = 8

\* C12: through resolve_nqueens AC-3 starts from full domains, removes no
\* value and never returns False, so the search runs over full domains.
C12_AC3KeepsFullDomains ==
    /\ domains = FullDomains(N)
    /\ ac3_result # "False"
    /\ pc = "finish" => FALSE
    /\ InSearch => ac3_result = "True"

C12_Witness ==
    /\ pc = "call" /\ N = 5 /\ ac3_result = "True"
    /\ constraints_queue = <<>>
    /\ current_assignment = EmptyDict

\* C13: the variable a frame selected is unassigned, its domain is of
\* minimal size among the unassigned variables, and it has the largest index
\* among the unassigned variables whose domain has that size.
C13_SelectUnassigned ==
    \A k \in 1..Len(stack) :
        LET selected   == stack[k].next_variable
            unassigned == (DOMAIN domains) \ (DOMAIN stack[k].entry)
        IN  /\ selected \in unassigned
            /\ \A u \in unassigned : Len(domains[selected]) <= Len(domains[u])
            /\ \A u \in unassigned :
                   Len(domains[u]) = Len(domains[selected]) => u <= selected

\* a frame chose a variable that is not the largest unassigned one, with a
\* tie on the minimal domain size
C13_Witness ==
    \E k \in 1..Len(stack) :
        LET selected   == stack[k].next_variable
            unassigned == (DOMAIN domains) \ (DOMAIN stack[k].entry)
        IN  /\ \E u \in unassigned : u > selected
            /\ \E u \in unassigned : u < selected /\ Len(domains[u]) = Len(domains[selected])

\* the compatibility score of value v for the variable selected on top of
\* assignment a: the pairs (u, w), u another unassigned variable, w in u's
\* domain, with w consistent with a extended by selected := v
CompatibilityScore(selected, v, a) ==
    LET extended == DictSet(a, selected, v)
    IN  Cardinality({p \in (DOMAIN domains) \X (0..(N - 1)) :
                        /\ p[1] # selected
                        /\ p[1] \notin DOMAIN a
                        /\ p[2] \in ListSet(domains[p[1]])
                        /\ NoEntryConflicts(p[1], p[2], extended)})

\* the position of v in the list l
PositionIn(l, v) == CHOOSE k \in 1..Len(l) : l[k] = v

\* C14: the values a frame got from prioritize_domain_values are a
\* permutation of the selected variable's domain in descending order of
\* compatibility score, values of equal score in the order of the domain.
C14_OrderValues ==
    (pc = "loop" /\ stack[Len(stack)].idx = 1) =>
        LET frame    == stack[Len(stack)]
            selected == frame.next_variable
            l        == domains[selected]
            ordered  == frame.viable_values
            score    == [v \in ListSet(l) |->
                            CompatibilityScore(selected, v, frame.entry)]
        IN  /\ Len(ordered) = Len(l)
            /\ ListSet(ordered) = ListSet(l)
            /\ \A i \in 1..Len(ordered) : \A j \in 1..Len(ordered) :
                   i < j =>
                      \/ score[ordered[i]] > score[ordered[j]]
                      \/ /\ score[ordered[i]] = score[ordered[j]]
                         /\ PositionIn(l, ordered[i]) < PositionIn(l, ordered[j])

\* a frame whose ordering differs from the domain's order and holds a tie
C14_Witness ==
    /\ pc = "loop" /\ stack[Len(stack)].idx = 1
    /\ stack[Len(stack)].entry # EmptyDict
    /\ stack[Len(stack)].viable_values # domains[stack[Len(stack)].next_variable]
    /\ \E i \in 1..(Len(stack[Len(stack)].viable_values) - 1) :
          CompatibilityScore(stack[Len(stack)].next_variable,
                             stack[Len(stack)].viable_values[i],
                             stack[Len(stack)].entry)
          = CompatibilityScore(stack[Len(stack)].next_variable,
                               stack[Len(stack)].viable_values[i + 1],
                               stack[Len(stack)].entry)

RECURSIVE TotalValues(_, _)
TotalValues(d, S) ==
    IF S = {} THEN 0
    ELSE LET v == CHOOSE x \in S : TRUE
         IN  Len(d[v]) + TotalValues(d, S \ {v})

\* what is left to do: the pairs on the worklist, plus the (N-1)^2 pairs
\* that each value still in a domain can cause to be appended when removed
AC3Potential ==
    Len(constraints_queue) + (N - 1) * (N - 1) * TotalValues(domains, DOMAIN domains)

\* C15: the AC-3 loop ends from every domain store: each iteration strictly
\* decreases a non-negative measure of the worklist and the domains, and the
\* loop is eventually left (worklist empty, or an empty domain detected).
C15_AC3Terminates ==
    /\ [][(pc = "ac3" /\ constraints_queue # <<>>) =>
             (AC3Potential' < AC3Potential /\ AC3Potential' >= 0)]_vars
    /\ <>(pc # "ac3" /\ ac3_result \in {"True", "False"})

\* a run that appended pairs again, more than once, and then ended
C15_Witness ==
    /\ pc # "ac3" /\ ac3_result = "True"
    /\ \E v \in DOMAIN domains : Len(domains0[v]) - Len(domains[v]) >= 2
    /\ \E v \in DOMAIN domains : \E u \in DOMAIN domains :
          u # v /\ domains[v] # domains0[v] /\ domains[u] # domains0[u]

\* the top-level attempt_solution call has returned
SearchReturned ==
    /\ pc = "return" /\ stack = <<>>
    /\ \/ ret = NoneValue
       \/ ret = DictValue(current_assignment) /\ IsComplete(current_assignment, domains)

\* C16: the search called on the empty assignment returns, with a complete
\* assignment or with None once the top-level candidates are exhausted, and
\* no tentative entry leads to an assignment that was already explored.
C16_SearchTerminates ==
    /\ [][(pc = "loop" /\ pc' = "call") =>
             \A k \in 1..Len(trace) : trace[k] # current_assignment']_vars
    /\ (pc = "call" /\ stack = <<>>) ~> SearchReturned

\* a search that backtracked out of several branches and returned None
C16_Witness ==
    /\ pc = "return" /\ stack = <<>> /\ ret = NoneValue
    /\ N = 3
    /\ Len(trace) > 6

\* the pairs that follow the first k elements of the list l
Appended(l, k) == {l[i] : i \in (k + 1)..Len(l)}

\* C17: after revise(x, y) in the AC-3 loop: if x's domain changed and is not
\* empty, the pairs appended are the pairs (z, x) for every z other than y,
\* and (y, x) is not among them; if nothing changed, nothing is appended; if
\* x's domain was emptied, the loop returns False at once and the worklist
\* and the domains are not touched again.
C17_Requeue ==
    /\ [][(pc = "ac3" /\ constraints_queue # <<>>) =>
             LET x    == Head(constraints_queue)[1]
                 y    == Head(constraints_queue)[2]
                 rest == Tail(constraints_queue)
             IN  IF domains'[x] = domains[x]
                 THEN constraints_queue' = rest /\ pc' = "ac3"
                 ELSE IF domains'[x] = <<>>
                      THEN /\ constraints_queue' = rest
                           /\ ac3_result' = "False"
                           /\ pc' # "ac3"
                      ELSE /\ SubSeq(constraints_queue', 1, Len(rest)) = rest
                           /\ Appended(constraints_queue', Len(rest))
                                 = {<<z, x>> : z \in (DOMAIN domains) \ {y}}
                           /\ <<y, x>> \notin Appended(constraints_queue', Len(rest))
                           /\ pc' = "ac3"]_vars
    /\ [][ac3_result = "False" =>
             (constraints_queue' = constraints_queue /\ domains' = domains)]_vars

\* the worklist holds appended pairs, among them a pair (x, x)
C17_Witness ==
    /\ pc = "ac3" /\ N = 3
    /\ Len(constraints_queue) > Len(constraints)
    /\ \E k \in 1..Len(constraints_queue) :
          constraints_queue[k][1] = constraints_queue[k][2]

\* C18: the search never modifies the domain store: from the call of the
\* search to its end every variable's domain is the list it was at the start.
C18_SearchKeepsDomains ==
    /\ [][(pc \in {"call", "loop", "return"}) => (domains' = domains)]_vars
    /\ [](pc \in {"call", "loop", "return", "done"} => domains = domains0)

\* a frame whose candidate order differs from the order of the domain list
C18_Witness ==
    /\ pc = "loop"
    /\ domains # FullDomains(N)
    /\ stack[Len(stack)].viable_values # domains[stack[Len(stack)].next_variable]

\* C19: once the assignment has N entries no further candidate is tried, no
\* frame is entered and the assignment is not modified again; the result of
\* the call is that assignment, the first complete one the search reached.
C19_FirstSolutionWins ==
    /\ [][(pc \in {"call", "loop", "return"} /\ IsComplete(current_assignment, domains)) =>
             (/\ current_assignment' = current_assignment
              /\ trace' = trace
              /\ pc' \in {"return", "done"}
              /\ Len(stack') <= Len(stack)
              /\ \A k \in 1..Len(stack') : stack'[k] = stack[k])]_vars
    /\ []((pc = "done" /\ outcome = "success") =>
             (/\ solution_assignment = DictValue(current_assignment)
              /\ current_assignment = trace[Len(trace)]
              /\ \A k \in 1..(Len(trace) - 1) : Cardinality(DOMAIN trace[k]) < N))

\* success is being returned through frames that still had candidates left
C19_Witness ==
    /\ pc = "return" /\ ret.kind = "dict" /\ N = 6
    /\ Len(stack) = 2
    /\ \E k \in 1..Len(stack) : stack[k].idx < Len(stack[k].viable_values)

====
